---- MODULE Spec2Model ----
(***************************************************************************)
(* Model of radicale_storage_decsync: the Radicale storage Collection that *)
(* mirrors a DecSync directory.  One Collection is a record (the local     *)
(* storage of the collection, the in-memory uid<->href tables of the       *)
(* mixin and the persisted .Radicale.hrefs file); the DecSync directory of *)
(* a collection is a sequence of entries (dlog) with a read cursor.        *)
(***************************************************************************)
EXTENDS Integers, Sequences, FiniteSets, TLC

VARIABLES colls, dlog, cursor, last, hist

vars == <<colls, dlog, cursor, last, hist>>

(* ------------------------------ bounds -------------------------------- *)

\* longest DecSync log of one collection
MaxLog == 2
\* longest log in the specification of local uploads and deletes
MaxLocalLog == 3
\* longest entry sequence replayed in the replay specification
MaxReplay == 3

(* ------------------------------ values -------------------------------- *)

Uids == {"u1", "u2"}
Stems == Uids \cup {"x"}
Bodies == {"a", "b"}
SyncTypes == {"contacts", "calendars", "todo"}
CollIds == {"a", "b"}

\* Python values carried by entries and metadata, tagged by type
Null == [t |-> "null"]
Bool(b) == [t |-> "bool", b |-> b]
Str(s) == [t |-> "str", s |-> s]

\* a parsed vobject component, and the absence of one (Collection.get -> None)
Item(name, uid, body) == [name |-> name, uid |-> uid, body |-> body]
NoItem == [name |-> "none", uid |-> "", body |-> ""]

\* item.serialize(): the text of the component
serialize(item) == [t |-> "text", name |-> item.name, uid |-> item.uid, body |-> item.body]

\* vobject.readOne(value): the component a text holds
readOne(value) == [name |-> value.name, uid |-> value.uid, body |-> value.body]

\* an href is a file name: a stem and a four-character extension
Href(stem, ext) == [stem |-> stem, ext |-> ext]
NoneHref == [stem |-> "None", ext |-> ""]
Exts == {".vcf", ".ics"}
AllHrefs == {Href(s, e) : s \in Stems, e \in Exts}

\* a path segment "<sync_type>-<collection>" as its "-"-separated tokens
Seg(sync_type, collection) == <<sync_type, collection>>
Segs == {Seg(t, "a") : t \in SyncTypes} \cup {Seg(t, "b") : t \in {"contacts", "calendars"}}

(* ------------------------- Python dict (ordered) ----------------------- *)

DictHas(d, k) == \E i \in 1..Len(d) : d[i][1] = k

DictGet(d, k, default) ==
  IF DictHas(d, k) THEN d[CHOOSE i \in 1..Len(d) : d[i][1] = k][2] ELSE default

\* d[k] = v: an existing key keeps its position, a new key is appended
DictSet(d, k, v) ==
  IF DictHas(d, k)
  THEN [i \in 1..Len(d) |-> IF d[i][1] = k THEN <<k, v>> ELSE d[i]]
  ELSE Append(d, <<k, v>>)

EmptyFcn == [x \in {} |-> x]

\* the loop of load_hrefs: self._uids[href] = uid for each item, in order
RECURSIVE InvertDict(_)
InvertDict(d) ==
  IF d = <<>> THEN EmptyFcn
  ELSE LET n == Len(d)
       IN (d[n][2] :> d[n][1]) @@ InvertDict(SubSeq(d, 1, n - 1))

(* ----------------------- the .Radicale.hrefs file ---------------------- *)

FileMissing == [kind |-> "missing", members |-> <<>>]
FileGarbage == [kind |-> "garbage", members |-> <<>>]

\* json.dump(self._hrefs, f): a JSON object with the dict's members in order
json_dump(d) == [kind |-> "object", members |-> d]

\* open + json.load under try/except: any failure gives {}
json_load_or_empty(file) == IF file.kind = "object" THEN file.members ELSE <<>>

(* ------------------------ CollectionHrefMappingsMixin ------------------ *)

SuffixOf(sync_type) == IF sync_type = "contacts" THEN ".vcf" ELSE ".ics"

load_hrefs(c, sync_type) ==
  LET h == json_load_or_empty(c.file)
  IN [c EXCEPT !.suffix = SuffixOf(sync_type), !.hrefs = h, !.uids = InvertDict(h)]

get_href(c, uid) == DictGet(c.hrefs, uid, Href(uid, c.suffix))

\* set_href without the comparison of line 37
set_href_always(c, uid, href) ==
  [c EXCEPT !.hrefs = DictSet(@, uid, href),
            !.uids = (href :> uid) @@ @,
            !.file = json_dump(DictSet(c.hrefs, uid, href))]

set_href(c, uid, href) ==
  IF href = get_href(c, uid) THEN c
  ELSE [c EXCEPT !.hrefs = DictSet(@, uid, href),
                 !.uids = (href :> uid) @@ @,
                 !.file = json_dump(DictSet(c.hrefs, uid, href))]

\* href[:-len(self._suffix)] drops the last four characters: the extension
get_uid(c, href) == IF href \in DOMAIN c.uids THEN c.uids[href] ELSE href.stem

(* -------------------- the Radicale filesystem storage ------------------ *)

R(c, log, err, tr) == [c |-> c, log |-> log, err |-> err, tr |-> tr]

\* the item files of a collection directory: href -> item, for the files there
NoItems == EmptyFcn

PutItem(items, href, item) == (href :> item) @@ items

DropItem(items, href) == [h \in DOMAIN items \ {href} |-> items[h]]

\* a Collection object before load_hrefs, on a directory that exists or not
NewCollection(exists, meta, file) ==
  [exists |-> exists, bound |-> FALSE, items |-> NoItems, meta |-> meta,
   file |-> file, suffix |-> "", hrefs |-> <<>>, uids |-> EmptyFcn]

\* super().get(href): the item stored at href, None when there is none
storage_get(c, href) == IF c.exists /\ href \in DOMAIN c.items THEN c.items[href] ELSE NoItem

\* super().get_meta(key): the stored property, None when it is not set
get_meta(c, key) == DictGet(c.meta, key, Null)

\* super().upload(href, vobject_item): writes the item file; ok is whether
\* the write succeeds (it cannot in a directory that is gone)
storage_upload(c, href, item, ok) ==
  IF c.exists /\ ok
  THEN [c |-> [c EXCEPT !.items = PutItem(@, href, item)], err |-> ""]
  ELSE [c |-> c, err |-> "storage"]

\* super().delete(href): removes the whole collection directory (href None)
\* or one item file, which must exist
storage_delete(c, href, ok) ==
  IF ~(c.exists /\ ok) THEN [c |-> c, err |-> "storage"]
  ELSE IF href = NoneHref
  THEN [c |-> [c EXCEPT !.exists = FALSE, !.items = NoItems, !.meta = <<>>,
                        !.file = FileMissing],
        err |-> ""]
  ELSE IF href \notin DOMAIN c.items THEN [c |-> c, err |-> "storage"]
  ELSE [c |-> [c EXCEPT !.items = DropItem(@, href)], err |-> ""]

\* super().set_meta_all(props): rewrites the properties file
storage_set_meta_all(c, props, ok) ==
  IF c.exists /\ ok
  THEN [c |-> [c EXCEPT !.meta = props], err |-> ""]
  ELSE [c |-> c, err |-> "storage"]

\* storage.check_and_sanitize_item(item, uid=uid, tag=tag)
check_and_sanitize_item(item, uid, tag) ==
  IF (item.name = "VCARD" /\ tag = "VADDRESSBOOK")
     \/ (item.name = "VCALENDAR" /\ tag = "VCALENDAR")
  THEN [item |-> IF item.uid = "" THEN [item EXCEPT !.uid = uid] ELSE item, err |-> ""]
  ELSE [item |-> item, err |-> "ValueError:item"]

(* ------------------------------- DecSync -------------------------------- *)

Entry(path, key, value, origin) ==
  [path |-> path, key |-> key, value |-> value, origin |-> origin]

\* self.decsync.set_entry(path, key, value): appends an entry of this app
set_entry(log, path, key, value) == Append(log, Entry(path, key, value, "own"))

(* ------------------------------ Collection ------------------------------ *)

\* upload without the set_href of line 157
upload_unmapped(c, log, href, vobject_item, update_decsync, ok) ==
  LET s == storage_upload(c, href, vobject_item, ok)
      item == storage_get(s.c, href)
  IN IF s.err # "" THEN R(c, log, s.err, <<"store_fail">>)
     ELSE IF update_decsync
     THEN R(s.c,
            set_entry(log, <<"resources", item.uid>>, "None", serialize(item)),
            "", <<"store", "log">>)
     ELSE R(s.c, log, "", <<"store">>)

upload(c, log, href, vobject_item, update_decsync, ok) ==
  LET s == storage_upload(c, href, vobject_item, ok)
      item == storage_get(s.c, href)
  IN IF s.err # "" THEN R(c, log, s.err, <<"store_fail">>)
     ELSE IF update_decsync
     THEN R(set_href(s.c, item.uid, href),
            set_entry(log, <<"resources", item.uid>>, "None", serialize(item)),
            "", <<"store", "map", "log">>)
     ELSE R(s.c, log, "", <<"store">>)

delete(c, log, href, update_decsync, ok) ==
  LET log1 == IF ~update_decsync THEN log
              ELSE IF href = NoneHref
              THEN set_entry(log, <<"info">>, "deleted", Bool(TRUE))
              ELSE set_entry(log, <<"resources", get_uid(c, href)>>, "None", Null)
      tr1 == IF update_decsync THEN <<"log">> ELSE <<>>
      s == storage_delete(c, href, ok)
  IN IF s.err # "" THEN R(c, log1, s.err, tr1 \o <<"store_fail">>)
     ELSE R(s.c, log1, "", tr1 \o <<"store">>)

\* the loop of set_meta_all without the comparison of line 173
RECURSIVE meta_entries_all(_, _, _)
meta_entries_all(c, log, props) ==
  IF props = <<>> THEN log
  ELSE LET key == Head(props)[1]
           value == Head(props)[2]
           log1 == IF key = "D:displayname"
                   THEN set_entry(log, <<"info">>, "name", value)
                   ELSE IF key = "ICAL:calendar-color"
                   THEN set_entry(log, <<"info">>, "color", value)
                   ELSE log
       IN meta_entries_all(c, log1, Tail(props))

\* the loop of set_meta_all over props.items(), in the dict's order
RECURSIVE meta_entries(_, _, _)
meta_entries(c, log, props) ==
  IF props = <<>> THEN log
  ELSE LET key == Head(props)[1]
           value == Head(props)[2]
           log1 == IF get_meta(c, key) = value THEN log
                   ELSE IF key = "D:displayname"
                   THEN set_entry(log, <<"info">>, "name", value)
                   ELSE IF key = "ICAL:calendar-color"
                   THEN set_entry(log, <<"info">>, "color", value)
                   ELSE log
       IN meta_entries(c, log1, Tail(props))

set_meta_all(c, log, props, update_decsync, ok) ==
  LET log1 == IF update_decsync THEN meta_entries(c, log, props) ELSE log
      tr1 == [i \in 1..(Len(log1) - Len(log)) |-> "log"]
      s == storage_set_meta_all(c, props, ok)
  IN IF s.err # "" THEN R(c, log1, s.err, tr1 \o <<"store_fail">>)
     ELSE R(s.c, log1, "", tr1 \o <<"store">>)

_set_meta_key(c, log, key, value, update_decsync, ok) ==
  set_meta_all(c, log, DictSet(c.meta, key, value), update_decsync, ok)

\* info_listener with the final raise dropped: an unknown key is ignored
info_listener_lenient(c, log, path, key, value, ok) ==
  IF key = "name" THEN _set_meta_key(c, log, "D:displayname", value, FALSE, ok)
  ELSE IF key = "deleted" THEN delete(c, log, NoneHref, FALSE, ok)
  ELSE IF key = "color" THEN _set_meta_key(c, log, "ICAL:calendar-color", value, FALSE, ok)
  ELSE R(c, log, "", <<>>)

info_listener(c, log, path, key, value, ok) ==
  IF key = "name" THEN _set_meta_key(c, log, "D:displayname", value, FALSE, ok)
  ELSE IF key = "deleted" THEN delete(c, log, NoneHref, FALSE, ok)
  ELSE IF key = "color" THEN _set_meta_key(c, log, "ICAL:calendar-color", value, FALSE, ok)
  ELSE R(c, log, "ValueError:key", <<>>)

\* resources_listener without update_decsync=False: what it applies is forwarded
resources_listener_echo(c, log, sync_type, path, value, ok) ==
  IF Len(path) # 1 THEN R(c, log, "ValueError:path", <<>>)
  ELSE LET uid == path[1]
           href == get_href(c, uid)
       IN IF value = Null
          THEN IF storage_get(c, href) # NoItem
               THEN delete(c, log, href, TRUE, ok)
               ELSE R(c, log, "", <<>>)
          ELSE LET item == readOne(value)
                   tag == IF sync_type = "contacts" THEN "VADDRESSBOOK"
                          ELSE IF sync_type = "calendars" THEN "VCALENDAR"
                          ELSE "unknown"
                   chk == check_and_sanitize_item(item, uid, tag)
               IN IF tag = "unknown" THEN R(c, log, "RuntimeError:sync_type", <<>>)
                  ELSE IF chk.err # "" THEN R(c, log, chk.err, <<>>)
                  ELSE upload(c, log, href, chk.item, TRUE, ok)

\* resources_listener with the unknown-type raise replaced by the calendar tag
resources_listener_anytype(c, log, sync_type, path, value, ok) ==
  IF Len(path) # 1 THEN R(c, log, "ValueError:path", <<>>)
  ELSE LET uid == path[1]
           href == get_href(c, uid)
       IN IF value = Null
          THEN IF storage_get(c, href) # NoItem
               THEN delete(c, log, href, FALSE, ok)
               ELSE R(c, log, "", <<>>)
          ELSE LET item == readOne(value)
                   tag == IF sync_type = "contacts" THEN "VADDRESSBOOK"
                          ELSE IF sync_type = "calendars" THEN "VCALENDAR"
                          ELSE "VCALENDAR"
                   chk == check_and_sanitize_item(item, uid, tag)
               IN IF tag = "unknown" THEN R(c, log, "RuntimeError:sync_type", <<>>)
                  ELSE IF chk.err # "" THEN R(c, log, chk.err, <<>>)
                  ELSE upload(c, log, href, chk.item, FALSE, ok)

\* resources_listener without the test of line 75
resources_listener_unguarded(c, log, sync_type, path, value, ok) ==
  IF Len(path) # 1 THEN R(c, log, "ValueError:path", <<>>)
  ELSE LET uid == path[1]
           href == get_href(c, uid)
       IN IF value = Null
          THEN delete(c, log, href, FALSE, ok)
          ELSE LET item == readOne(value)
                   tag == IF sync_type = "contacts" THEN "VADDRESSBOOK"
                          ELSE IF sync_type = "calendars" THEN "VCALENDAR"
                          ELSE "unknown"
                   chk == check_and_sanitize_item(item, uid, tag)
               IN IF tag = "unknown" THEN R(c, log, "RuntimeError:sync_type", <<>>)
                  ELSE IF chk.err # "" THEN R(c, log, chk.err, <<>>)
                  ELSE upload(c, log, href, chk.item, FALSE, ok)

\* resources_listener leaving an item that is already stored as it is
resources_listener_keep(c, log, sync_type, path, value, ok) ==
  IF Len(path) # 1 THEN R(c, log, "ValueError:path", <<>>)
  ELSE LET uid == path[1]
           href == get_href(c, uid)
       IN IF value = Null
          THEN IF storage_get(c, href) # NoItem
               THEN delete(c, log, href, FALSE, ok)
               ELSE R(c, log, "", <<>>)
          ELSE LET item == readOne(value)
                   tag == IF sync_type = "contacts" THEN "VADDRESSBOOK"
                          ELSE IF sync_type = "calendars" THEN "VCALENDAR"
                          ELSE "unknown"
                   chk == check_and_sanitize_item(item, uid, tag)
               IN IF tag = "unknown" THEN R(c, log, "RuntimeError:sync_type", <<>>)
                  ELSE IF chk.err # "" THEN R(c, log, chk.err, <<>>)
                  ELSE IF storage_get(c, href) # NoItem THEN R(c, log, "", <<>>)
                  ELSE upload(c, log, href, chk.item, FALSE, ok)

resources_listener(c, log, sync_type, path, value, ok) ==
  IF Len(path) # 1 THEN R(c, log, "ValueError:path", <<>>)
  ELSE LET uid == path[1]
           href == get_href(c, uid)
       IN IF value = Null
          THEN IF storage_get(c, href) # NoItem
               THEN delete(c, log, href, FALSE, ok)
               ELSE R(c, log, "", <<>>)
          ELSE LET item == readOne(value)
                   tag == IF sync_type = "contacts" THEN "VADDRESSBOOK"
                          ELSE IF sync_type = "calendars" THEN "VCALENDAR"
                          ELSE "unknown"
                   chk == check_and_sanitize_item(item, uid, tag)
               IN IF tag = "unknown" THEN R(c, log, "RuntimeError:sync_type", <<>>)
                  ELSE IF chk.err # "" THEN R(c, log, chk.err, <<>>)
                  ELSE upload(c, log, href, chk.item, FALSE, ok)

\* Decsync hands an entry to the listener registered for the head of its
\* path, with the rest of the path
dispatch(c, log, sync_type, e, ok) ==
  IF e.path # <<>> /\ Head(e.path) = "info"
  THEN info_listener(c, log, Tail(e.path), e.key, e.value, ok)
  ELSE IF e.path # <<>> /\ Head(e.path) = "resources"
  THEN resources_listener(c, log, sync_type, Tail(e.path), e.value, ok)
  ELSE R(c, log, "", <<>>)

\* self.decsync.execute_all_new_entries(self): the entries of other apps from
\* position i to n, in log order; the first listener error ends the call.
\* failAt is the position of the entry whose storage write fails (0: none)
RECURSIVE execute_all_new_entries(_, _, _, _, _, _)
execute_all_new_entries(c, log, i, n, sync_type, failAt) ==
  IF i > n THEN [c |-> c, log |-> log, err |-> "", cursor |-> n]
  ELSE IF log[i].origin = "own"
  THEN execute_all_new_entries(c, log, i + 1, n, sync_type, failAt)
  ELSE LET r == dispatch(c, log, sync_type, log[i], i # failAt)
       IN IF r.err # ""
          THEN [c |-> r.c, log |-> r.log, err |-> r.err, cursor |-> i - 1]
          ELSE execute_all_new_entries(r.c, r.log, i + 1, n, sync_type, failAt)

\* super().etag / the token of super().sync(): a digest of the stored items
\* and properties, equal exactly for equal contents
storage_etag(c) == [items |-> c.items, meta |-> c.meta]

\* etag with the two lines swapped: the result is taken before the pump
etag_stale(c, log, cur, sync_type, failAt) ==
  LET p == execute_all_new_entries(c, log, cur + 1, Len(log), sync_type, failAt)
  IN [c |-> p.c, log |-> p.log, err |-> p.err, cursor |-> p.cursor,
      res |-> IF p.err = "" THEN storage_etag(c) ELSE Null]

\* the etag property and sync(old_token): pump, then the storage's result
etag(c, log, cur, sync_type, failAt) ==
  LET p == execute_all_new_entries(c, log, cur + 1, Len(log), sync_type, failAt)
  IN [c |-> p.c, log |-> p.log, err |-> p.err, cursor |-> p.cursor,
      res |-> IF p.err = "" THEN storage_etag(p.c) ELSE Null]

sync(c, log, cur, sync_type, failAt) ==
  LET p == execute_all_new_entries(c, log, cur + 1, Len(log), sync_type, failAt)
  IN [c |-> p.c, log |-> p.log, err |-> p.err, cursor |-> p.cursor,
      res |-> IF p.err = "" THEN storage_etag(p.c) ELSE Null]

\* Collection.__init__ on a two-segment path: sync_type is the text of the
\* segment before its first "-"; the object loads its mapping
sync_type_of(seg) == Head(seg)

\* attributes[1][len(sync_type)+1:]: the text after the first "-", the empty
\* text when the segment has none
collection_of(seg) == IF Len(seg) > 1 THEN Tail(seg) ELSE <<"">>

Collection(c, seg) == [load_hrefs(c, sync_type_of(seg)) EXCEPT !.bound = TRUE]

(* ------------------------------- discover ------------------------------ *)

\* a path after sanitize_path(path).strip("/").split("/"): its segments, each
\* the "-"-separated tokens of its text; the root is one empty segment
Root == << <<"">> >>
User == << <<"user">> >>

\* _get_attributes_from_path without the pop of lines 13-14
attributes_unpopped(path) == path

_get_attributes_from_path(path) ==
  IF Head(path) = <<"">> THEN SubSeq(path, 1, Len(path) - 1) ELSE path

Exists(cs, seg) == seg \in DOMAIN cs /\ cs[seg].exists

\* the elements of the sequence that are in the set, in order
RECURSIVE Among(_, _)
Among(s, S) ==
  IF s = <<>> THEN <<>>
  ELSE IF Head(s) \in S THEN <<Head(s)>> \o Among(Tail(s), S)
  ELSE Among(Tail(s), S)

\* super().discover(path, depth): the paths of the collections the storage
\* holds at path and, for a depth other than "0", right below it; ord is the
\* order in which directories are listed
storage_discover(cs, path, depth, ord) ==
  LET attrs == _get_attributes_from_path(path)
      children == Among(ord, {seg \in DOMAIN cs : cs[seg].exists})
  IN IF attrs = <<>>
     THEN <<Root>> \o (IF depth = "0" THEN <<>> ELSE <<User>>)
     ELSE IF Len(attrs) = 1
     THEN <<path>> \o (IF depth = "0" THEN <<>>
                       ELSE [i \in 1..Len(children) |-> path \o <<children[i]>>])
     ELSE IF Len(attrs) = 2 /\ Exists(cs, attrs[2]) THEN <<path>>
     ELSE <<>>

\* Decsync.list_collections(decsync_dir, sync_type): the collections of the
\* type that have a DecSync directory
list_collections(dl, sync_type, ord) ==
  LET dirs == Among(ord, {seg \in DOMAIN dl : Head(seg) = sync_type})
  IN [i \in 1..Len(dirs) |-> Tail(dirs[i])]

\* the entries of log under the path prefix that no later entry of the same
\* path and key replaces, in log order
StoredFrom(log, prefix, i) ==
  /\ log[i].path # <<>>
  /\ Head(log[i].path) = prefix
  /\ \A j \in (i + 1)..Len(log) : ~(log[j].path = log[i].path /\ log[j].key = log[i].key)

RECURSIVE stored_entries(_, _, _)
stored_entries(log, prefix, i) ==
  IF i > Len(log) THEN <<>>
  ELSE IF StoredFrom(log, prefix, i) THEN <<log[i]>> \o stored_entries(log, prefix, i + 1)
  ELSE stored_entries(log, prefix, i + 1)

\* Decsync.get_static_info(decsync_dir, sync_type, collection, key): the
\* stored value of the info key, None when there is none
get_static_info(dl, seg, key) ==
  LET es == stored_entries(dl[seg], "info", 1)
      at == {i \in 1..Len(es) : es[i].key = key}
  IN IF at = {} THEN Null ELSE es[CHOOSE i \in at : TRUE].value

\* child.decsync.execute_stored_entries_for_path(prefix, child): the stored
\* entries of the prefix handed to its listener; the first error ends it
RECURSIVE execute_stored_entries(_, _, _, _, _)
execute_stored_entries(c, log, sync_type, es, ev) ==
  IF es = <<>> THEN [c |-> c, log |-> log, err |-> "", ev |-> ev]
  ELSE LET e == Head(es)
           r == dispatch(c, log, sync_type, e, TRUE)
       IN IF r.err # ""
          THEN [c |-> r.c, log |-> r.log, err |-> r.err, ev |-> Append(ev, Head(e.path))]
          ELSE execute_stored_entries(r.c, r.log, sync_type, Tail(es), Append(ev, Head(e.path)))

\* super().create_collection(path, props=props): a new directory with the
\* properties written by set_meta_all, then the Collection object of the path
storage_create_collection(log, seg, props) ==
  LET r == set_meta_all(Collection(NewCollection(TRUE, <<>>, FileMissing), seg),
                        log, props, TRUE, TRUE)
  IN [c |-> Collection(r.c, seg), log |-> r.log]

\* line 116: the remote collection is marked deleted
tombstoned_never(dl, seg) == FALSE

tombstoned(dl, seg) == get_static_info(dl, seg, "deleted") = Bool(TRUE)

\* lines 117-126: the properties of a collection of the sync type
child_props(sync_type) ==
  IF sync_type = "contacts"
  THEN <<<<"tag", Str("VADDRESSBOOK")>>>>
  ELSE <<<<"tag", Str("VCALENDAR")>>,
         <<"C:supported-calendar-component-set", Str("VEVENT")>>>>

\* lines 130-131: the stored resources entries, after the info entries
prime_resources(i, sync_type) ==
  IF i.err # "" THEN i
  ELSE execute_stored_entries(i.c, i.log, sync_type,
                              stored_entries(i.log, "resources", 1), i.ev)

\* the priming with lines 129 and 130 exchanged
prime_resources_first(made, sync_type) ==
  LET r == execute_stored_entries(made.c, made.log, sync_type,
                                  stored_entries(made.log, "resources", 1), <<>>)
  IN IF r.err # "" THEN r
     ELSE execute_stored_entries(r.c, r.log, sync_type,
                                 stored_entries(r.log, "info", 1), r.ev)

\* lines 128-131: init_stored_entries, then the stored info entries, then
\* the stored resources entries
prime(made, sync_type) ==
  prime_resources(execute_stored_entries(made.c, made.log, sync_type,
                                         stored_entries(made.log, "info", 1), <<>>),
                  sync_type)

\* the child r of the path segment, created and primed, put into the state
materialized(st, seg, r) ==
  [st EXCEPT !.colls = (seg :> r.c) @@ @,
             !.dlog = (seg :> r.log) @@ @,
             !.cursor = (seg :> Len(r.log)) @@ @,
             !.ev = Append(@, <<"create", seg>>)
                    \o [k \in 1..Len(r.ev) |-> <<r.ev[k], seg>>],
             !.err = r.err]

\* line 127: child = super().create_collection(child_path, props=props)
discover_child(st, seg) ==
  materialized(st, seg,
               prime(storage_create_collection(st.dlog[seg], seg, child_props(Head(seg))),
                     sync_type_of(seg)))

\* line 132: yield child, which an error before it prevents
yield_child(st1, path, seg) ==
  IF st1.err # "" THEN st1
  ELSE [st1 EXCEPT !.yield = Append(@, path \o <<seg>>),
                   !.ev = Append(@, <<"yield", seg>>)]

\* lines 112-132: the body of the two loops for one remote collection
discover_step(st, path, known, seg) ==
  IF (path \o <<seg>>) \in known THEN st
  ELSE IF tombstoned(st.dlog, seg) THEN st
  ELSE IF Head(seg) \notin {"contacts", "calendars"}
  THEN [st EXCEPT !.err = "RuntimeError:sync_type"]
  ELSE yield_child(discover_child(st, seg), path, seg)

\* the two loops of discover over the remote collections, in order
RECURSIVE discover_scan(_, _, _, _)
discover_scan(st, path, known, cands) ==
  IF cands = <<>> \/ st.err # "" THEN st
  ELSE discover_scan(discover_step(st, path, known, Head(cands)), path, known, Tail(cands))

\* Collection.discover(path, depth), run to the end of the generator
discover(cs, dl, cur, path, depth, ord) ==
  LET local == storage_discover(cs, path, depth, ord)
      \* every yielded collection of a two-segment path is a Collection object
      cs1 == [seg \in DOMAIN cs |->
                IF \E i \in 1..Len(local) : Len(local[i]) = 2 /\ local[i][2] = seg
                THEN Collection(cs[seg], seg) ELSE cs[seg]]
      st == [colls |-> cs1, dlog |-> dl, cursor |-> cur, yield |-> local,
             ev |-> [i \in 1..Len(local) |-> <<"local", local[i]>>], err |-> ""]
      attributes == _get_attributes_from_path(path)
      known_paths == {local[i] : i \in 1..Len(local)}
      remote == [i \in 1..Len(list_collections(dl, "contacts", ord)) |->
                   <<"contacts">> \o list_collections(dl, "contacts", ord)[i]]
                \o [i \in 1..Len(list_collections(dl, "calendars", ord)) |->
                     <<"calendars">> \o list_collections(dl, "calendars", ord)[i]]
  IN IF depth = "0" THEN st
     ELSE IF Len(attributes) = 0 THEN st
     ELSE IF Len(attributes) = 1 THEN discover_scan(st, path, known_paths, remote)
     ELSE IF Len(attributes) = 2 THEN st
     ELSE [st EXCEPT !.err = "ValueError:attributes"]

(* --------------------------- create_collection ------------------------- *)

\* the props argument: None, or a dict
NoProps == [none |-> TRUE, d |-> <<>>]
Props(d) == [none |-> FALSE, d |-> d]

\* the last segment with the sync type put after it instead of before
rewritten_after(attributes, sync_type) ==
  [attributes EXCEPT ![Len(attributes)] = @ \o <<sync_type>>]

\* lines 150-151: attributes[-1] = sync_type + "-" + attributes[-1]
rewritten(attributes, sync_type) ==
  [attributes EXCEPT ![Len(attributes)] = <<sync_type>> \o @]

\* super().create_collection(path, items, props) of the class method: for a
\* two-segment path the directory of the collection, new or replaced, and
\* its Collection object; other paths are collections without a DecSync
\* side, of which nothing is kept here
storage_create_at(cs, dl, cur, path, props) ==
  IF Len(_get_attributes_from_path(path)) # 2
  THEN [colls |-> cs, dlog |-> dl, cursor |-> cur, path |-> path, err |-> ""]
  ELSE LET seg == path[2]
           log == IF seg \in DOMAIN dl THEN dl[seg] ELSE <<>>
       IN [colls |-> (seg :> (IF props.none
                              THEN Collection(NewCollection(TRUE, <<>>, FileMissing), seg)
                              ELSE storage_create_collection(log, seg, props.d).c)) @@ cs,
           dlog |-> (seg :> (IF props.none THEN log
                             ELSE storage_create_collection(log, seg, props.d).log)) @@ dl,
           cursor |-> (seg :> (IF seg \in DOMAIN cur THEN cur[seg] ELSE 0)) @@ cur,
           path |-> path, err |-> ""]

\* Collection.create_collection(href, items=None, props)
create_collection(cs, dl, cur, href, props) ==
  IF props.none THEN storage_create_at(cs, dl, cur, href, props)
  ELSE IF DictGet(props.d, "tag", Null) \notin {Str("VADDRESSBOOK"), Str("VCALENDAR")}
  THEN [colls |-> cs, dlog |-> dl, cursor |-> cur, path |-> <<>>,
        err |-> IF DictHas(props.d, "tag") THEN "ValueError:tag" ELSE "TypeError"]
  ELSE IF _get_attributes_from_path(href) = <<>>
  THEN [colls |-> cs, dlog |-> dl, cursor |-> cur, path |-> <<>>, err |-> "IndexError"]
  ELSE storage_create_at(cs, dl, cur,
                         rewritten(_get_attributes_from_path(href),
                                   IF DictGet(props.d, "tag", Null) = Str("VADDRESSBOOK")
                                   THEN "contacts" ELSE "calendars"),
                         props)

(* ------------------------------ input sets ------------------------------ *)

KindOf(sync_type) == IF sync_type = "contacts" THEN "VCARD" ELSE "VCALENDAR"

LocalHrefs(c) == {Href(s, c.suffix) : s \in Stems}

LocalItems(seg) == {Item(KindOf(sync_type_of(seg)), u, "a") : u \in Uids}

PropsInputs ==
  { <<<<"D:displayname", Str("n1")>>>>,
    <<<<"D:displayname", Str("n1")>>, <<"ICAL:calendar-color", Str("red")>>>>,
    <<<<"ICAL:calendar-color", Str("red")>>, <<"tag", Str("VCALENDAR")>>>> }

InfoInputs ==
  { <<"name", Str("n1")>>, <<"color", Str("red")>>, <<"deleted", Bool(TRUE)>>,
    <<"deleted", Bool(FALSE)>>, <<"foo", Str("n1")>> }

ResourceValues ==
  {Null} \cup {serialize(Item(n, u, "a")) : n \in {"VCARD", "VCALENDAR"}, u \in {"u1"}}

ResourcePaths == {<<"u1">>, <<>>, <<"u1", "u2">>}

\* what other apps append to the log: a name, an unknown key, an item and a
\* tombstone
RemoteEntries ==
  { Entry(<<"info">>, "name", Str("n1"), "remote"),
    Entry(<<"info">>, "foo", Str("n1"), "remote"),
    Entry(<<"resources", "u1">>, "None", serialize(Item("VCALENDAR", "u1", "b")), "remote"),
    Entry(<<"resources", "u1">>, "None", Null, "remote") }

(* -------------------------------- actions ------------------------------- *)

\* what the last operation was, what it was given and how it ended
Last(op, seg, err, tr) ==
  [op |-> op, seg |-> seg, err |-> err, tr |-> tr, href |-> NoneHref, uid |-> "",
   key |-> "", path |-> <<>>, value |-> Null, res |-> Null, ev |-> <<>>]

NoLast == Last("none", <<>>, "", <<>>)

Bound == {seg \in DOMAIN colls : colls[seg].bound}

\* the state after an operation on the collection seg
Commit(seg, c, log, cur, l) ==
  /\ colls' = (seg :> c) @@ colls
  /\ dlog' = (seg :> log) @@ dlog
  /\ cursor' = (seg :> cur) @@ cursor
  /\ last' = l

Upload(seg, href, item, ok) ==
  LET r == upload(colls[seg], dlog[seg], href, item, TRUE, ok)
  IN /\ Commit(seg, r.c, r.log, cursor[seg],
               [Last("upload", seg, r.err, r.tr) EXCEPT !.href = href, !.uid = item.uid])
     /\ UNCHANGED hist

Delete(seg, href, ok) ==
  LET r == delete(colls[seg], dlog[seg], href, TRUE, ok)
  IN /\ Commit(seg, r.c, r.log, cursor[seg],
               [Last("delete", seg, r.err, r.tr) EXCEPT !.href = href])
     /\ UNCHANGED hist

SetMetaAll(seg, props, ok) ==
  LET r == set_meta_all(colls[seg], dlog[seg], props, TRUE, ok)
  IN /\ Commit(seg, r.c, r.log, cursor[seg],
               [Last("set_meta_all", seg, r.err, r.tr) EXCEPT !.res = props])
     /\ UNCHANGED hist

\* Decsync delivers one entry of the info channel to info_listener
InfoListener(seg, key, value, ok) ==
  LET r == info_listener(colls[seg], dlog[seg], <<>>, key, value, ok)
  IN /\ Commit(seg, r.c, r.log, cursor[seg],
               [Last("info_listener", seg, r.err, r.tr) EXCEPT !.key = key, !.value = value])
     /\ UNCHANGED hist

\* Decsync delivers one entry of the resources channel to resources_listener
ResourcesListener(seg, path, value, ok) ==
  LET r == resources_listener(colls[seg], dlog[seg], sync_type_of(seg), path, value, ok)
  IN /\ Commit(seg, r.c, r.log, cursor[seg],
               [Last("resources_listener", seg, r.err, r.tr)
                  EXCEPT !.path = path, !.value = value])
     /\ UNCHANGED hist

\* another app appends an entry to the collection's DecSync directory
RemoteAppend(seg, e) ==
  /\ dlog' = [dlog EXCEPT ![seg] = Append(@, e)]
  /\ last' = Last("remote", seg, "", <<>>)
  /\ UNCHANGED <<colls, cursor, hist>>

Etag(seg, failAt) ==
  LET r == etag(colls[seg], dlog[seg], cursor[seg], sync_type_of(seg), failAt)
  IN /\ Commit(seg, r.c, r.log, r.cursor, [Last("etag", seg, r.err, <<>>) EXCEPT !.res = r.res])
     /\ UNCHANGED hist

Sync(seg, failAt) ==
  LET r == sync(colls[seg], dlog[seg], cursor[seg], sync_type_of(seg), failAt)
  IN /\ Commit(seg, r.c, r.log, r.cursor, [Last("sync", seg, r.err, <<>>) EXCEPT !.res = r.res])
     /\ UNCHANGED hist

\* a direct call of the mixin's set_href
SetHref(seg, uid, href) ==
  /\ colls' = (seg :> set_href(colls[seg], uid, href)) @@ colls
  /\ last' = [Last("set_href", seg, "", <<>>)
                EXCEPT !.uid = uid, !.href = href, !.res = get_href(colls[seg], uid)]
  /\ hist' = [hist EXCEPT !.called = @ \cup {uid}]
  /\ UNCHANGED <<dlog, cursor>>

\* a direct call of the mixin's load_hrefs, with the collection's sync_type
LoadHrefs(seg) ==
  /\ colls' = (seg :> load_hrefs(colls[seg], sync_type_of(seg))) @@ colls
  /\ last' = Last("load_hrefs", seg, "", <<>>)
  /\ UNCHANGED <<dlog, cursor, hist>>

\* another app creates a collection: its DecSync directory appears
RemoteCreate(seg) ==
  /\ seg \notin DOMAIN dlog
  /\ dlog' = (seg :> <<>>) @@ dlog
  /\ cursor' = (seg :> 0) @@ cursor
  /\ last' = Last("remote", seg, "", <<>>)
  /\ UNCHANGED <<colls, hist>>

\* the state a request is left in by a discover that returned r
Discovered(r, path, depth) ==
  /\ colls' = r.colls
  /\ dlog' = r.dlog
  /\ cursor' = r.cursor
  /\ last' = [Last("discover", <<>>, r.err, <<>>)
                EXCEPT !.path = path, !.key = depth, !.res = r.yield, !.ev = r.ev]
  /\ UNCHANGED hist

Discover(path, depth, ord) ==
  Discovered(discover(colls, dlog, cursor, path, depth, ord), path, depth)

\* the state after the entry e of the replayed sequence went through the
\* resources listener, which returned r
Replayed(seg, e, r) ==
  LET done == hist.pos + 1 = Len(hist.seq)
  IN /\ Commit(seg, r.c, r.log, cursor[seg],
                [Last("replay", seg, r.err, r.tr) EXCEPT !.path = e.path, !.value = e.value])
     /\ hist' = [hist EXCEPT !.pos = IF done THEN 0 ELSE @ + 1,
                             !.pass = IF done THEN @ + 1 ELSE @,
                             !.once = IF done /\ hist.pass = 1 THEN r.c.items ELSE @]

\* the next entry of the sequence is handed to the resources listener, in
\* the first pass over the sequence or in the second
Replay(seg) ==
  /\ hist.pass \in {1, 2}
  /\ hist.pos < Len(hist.seq)
  /\ Replayed(seg, hist.seq[hist.pos + 1],
              resources_listener(colls[seg], dlog[seg], sync_type_of(seg),
                                 hist.seq[hist.pos + 1].path,
                                 hist.seq[hist.pos + 1].value, TRUE))

\* the state a request is left in by a create_collection that returned r
Created_(r, href, props) ==
  /\ colls' = r.colls
  /\ dlog' = r.dlog
  /\ cursor' = r.cursor
  /\ last' = [Last("create_collection", <<>>, r.err, <<>>)
                EXCEPT !.path = href, !.res = props, !.ev = r.path]
  /\ UNCHANGED hist

CreateCollection(href, props) ==
  Created_(create_collection(colls, dlog, cursor, href, props), href, props)

\* a later request constructs the Collection object of the path again
Reopen(seg) ==
  /\ Commit(seg, Collection(colls[seg], seg), dlog[seg], cursor[seg], Last("init", seg, "", <<>>))
  /\ UNCHANGED hist

\* history kept for the properties: the uids set_href was called on, and the
\* progress of a replay
NoHist == [called |-> {}, seq |-> <<>>, pos |-> 0, pass |-> 0, once |-> NoItems]

\* one collection of the given sync types is materialized and bound
InitOne(types) ==
  /\ \E seg \in {Seg(t, "a") : t \in types} :
       /\ colls = (seg :> Collection(NewCollection(TRUE, <<>>, FileMissing), seg))
       /\ dlog = (seg :> <<>>)
       /\ cursor = (seg :> 0)
  /\ last = NoLast
  /\ hist = NoHist

(* Inbound side: entries of other apps reach the collection through the    *)
(* listeners, one at a time (the storage working) or pumped by etag and    *)
(* sync (the storage failing at any one entry); a local upload under       *)
(* another name gives the mapping an override and the log an own entry.    *)
Init == InitOne({"calendars", "todo"})

LogsWithin(n) == \A s \in DOMAIN dlog : Len(dlog[s]) <= n

Next ==
  \/ \E seg \in Bound :
       /\ Upload(seg, Href("x", colls[seg].suffix), Item(KindOf(sync_type_of(seg)), "u1", "a"), TRUE)
       /\ LogsWithin(MaxLog)'
  \/ \E seg \in Bound, kv \in InfoInputs : InfoListener(seg, kv[1], kv[2], TRUE)
  \/ \E seg \in Bound, p \in ResourcePaths, v \in ResourceValues :
       ResourcesListener(seg, p, v, TRUE)
  \/ \E seg \in Bound, e \in RemoteEntries : RemoteAppend(seg, e) /\ LogsWithin(MaxLog)'
  \/ \E seg \in Bound : \E failAt \in 0..Len(dlog[seg]) : Etag(seg, failAt)
  \/ \E seg \in Bound : \E failAt \in 0..Len(dlog[seg]) : Sync(seg, failAt)
  \/ \E seg \in Bound : Reopen(seg)

Spec == Init /\ [][Next]_vars

(* Outbound side: the local mutation operations, each of which may fail in *)
(* the storage.                                                            *)
InitOut == InitOne({"contacts", "calendars"})

NextOut ==
  \/ \E seg \in Bound :
     \E href \in LocalHrefs(colls[seg]), item \in LocalItems(seg), ok \in BOOLEAN :
       Upload(seg, href, item, ok) /\ LogsWithin(MaxLog)'
  \/ \E seg \in Bound :
     \E href \in LocalHrefs(colls[seg]) \cup {NoneHref}, ok \in BOOLEAN :
       Delete(seg, href, ok) /\ LogsWithin(MaxLog)'
  \/ \E seg \in Bound, props \in PropsInputs, ok \in BOOLEAN :
       SetMetaAll(seg, props, ok) /\ LogsWithin(MaxLog)'
  \/ \E seg \in Bound : Reopen(seg)

SpecOut == InitOut /\ [][NextOut]_vars

(* Renames: local uploads and deletes that succeed; an upload never        *)
(* replaces the file of another uid, a delete names a file that is there.  *)
InitRename == InitOne({"calendars"})

NextRename ==
  \/ \E seg \in Bound :
     \E href \in LocalHrefs(colls[seg]), item \in LocalItems(seg) :
       /\ storage_get(colls[seg], href).uid \in {"", item.uid}
       /\ Upload(seg, href, item, TRUE)
       /\ LogsWithin(MaxLocalLog)'
  \/ \E seg \in Bound :
     \E href \in DOMAIN colls[seg].items :
       Delete(seg, href, TRUE) /\ LogsWithin(MaxLocalLog)'

SpecRename == InitRename /\ [][NextRename]_vars

(* The mapping alone: set_href and load_hrefs called directly on a         *)
(* collection whose mapping file is missing or unreadable at first.        *)
InitMap ==
  /\ \E seg \in {Seg(t, "a") : t \in SyncTypes}, file \in {FileMissing, FileGarbage} :
       /\ colls = (seg :> Collection(NewCollection(TRUE, <<>>, file), seg))
       /\ dlog = (seg :> <<>>)
       /\ cursor = (seg :> 0)
  /\ last = NoLast
  /\ hist = NoHist

NextMap ==
  \/ \E seg \in Bound :
     \E uid \in Uids, href \in LocalHrefs(colls[seg]) : SetHref(seg, uid, href)
  \/ \E seg \in Bound : LoadHrefs(seg)

SpecMap == InitMap /\ [][NextMap]_vars

(* Discovery: two remote collections, each advertised or not with one of *)
(* a few histories; discover, the local removal of a collection (which     *)
(* logs deleted = true) and further info entries of other apps.            *)
DSegs == {Seg("contacts", "a"), Seg("calendars", "a")}

Orders == {<<Seg("contacts", "a"), Seg("calendars", "a")>>,
           <<Seg("calendars", "a"), Seg("contacts", "a")>>}

Histories(seg) ==
  { <<>>,
    <<Entry(<<"info">>, "deleted", Bool(TRUE), "remote")>>,
    <<Entry(<<"info">>, "name", Str("n1"), "remote"),
      Entry(<<"resources", "u1">>, "None",
            serialize(Item(KindOf(sync_type_of(seg)), "u1", "a")), "remote")>> }

DiscoverPaths ==
  {Root, User} \cup {User \o <<seg>> : seg \in DSegs}
  \cup {User \o <<Seg("calendars", "a"), <<"x">>>>}

DiscoverEntries ==
  { Entry(<<"info">>, "deleted", Bool(TRUE), "remote"),
    Entry(<<"info">>, "deleted", Bool(FALSE), "remote") }

InitDiscover ==
  /\ colls = EmptyFcn
  /\ \E adv \in SUBSET DSegs : \E h \in [adv -> UNION {Histories(seg) : seg \in DSegs}] :
       /\ \A seg \in adv : h[seg] \in Histories(seg)
       /\ dlog = h
       /\ cursor = [seg \in adv |-> 0]
  /\ last = NoLast
  /\ hist = NoHist

NextDiscover ==
  \/ \E path \in DiscoverPaths, depth \in {"0", "1"}, ord \in Orders :
       Discover(path, depth, ord)
  \/ \E seg \in Bound : colls[seg].exists /\ Delete(seg, NoneHref, TRUE) /\ LogsWithin(MaxLog)'
  \/ \E seg \in DOMAIN dlog, e \in DiscoverEntries :
       RemoteAppend(seg, e) /\ LogsWithin(MaxLog)'
  \/ \E seg \in DSegs : RemoteCreate(seg)

SpecDiscover == InitDiscover /\ [][NextDiscover]_vars

(* Replay: a freshly materialized collection and a sequence of resources   *)
(* entries (creates and tombstones, the item's UID that of the path, empty, *)
(* or another one), handed to the resources listener entry by entry, twice. *)
ReplayEntries(seg) ==
  { [path |-> <<"u1">>, value |-> serialize(Item(KindOf(sync_type_of(seg)), "u1", "a"))],
    [path |-> <<"u1">>, value |-> serialize(Item(KindOf(sync_type_of(seg)), "", "b"))],
    [path |-> <<"u1">>, value |-> serialize(Item(KindOf(sync_type_of(seg)), "u2", "b"))],
    [path |-> <<"u1">>, value |-> Null],
    [path |-> <<"u2">>, value |-> serialize(Item(KindOf(sync_type_of(seg)), "u2", "a"))],
    [path |-> <<"u2">>, value |-> Null] }

InitReplay ==
  /\ \E seg \in {Seg(t, "a") : t \in {"contacts", "calendars"}} :
       /\ colls = (seg :> Collection(NewCollection(TRUE, <<>>, FileMissing), seg))
       /\ dlog = (seg :> <<>>)
       /\ cursor = (seg :> 0)
       /\ \E n \in 1..MaxReplay : \E es \in [1..n -> ReplayEntries(seg)] :
            hist = [NoHist EXCEPT !.seq = es, !.pass = 1]
  /\ last = NoLast

NextReplay ==
  \E seg \in Bound : Replay(seg)

SpecReplay == InitReplay /\ [][NextReplay]_vars

(* Creation: collections made through create_collection, with and without *)
(* props, under names with and without a "-", and made again.              *)
CreateHrefs == {Root, User \o <<<<"my", "cal">>>>}

CreateProps ==
  { NoProps,
    Props(<<<<"tag", Str("VADDRESSBOOK")>>>>),
    Props(<<<<"tag", Str("VCALENDAR")>>, <<"D:displayname", Str("n1")>>>>),
    Props(<<<<"tag", Str("VJOURNAL")>>>>),
    Props(<<<<"D:displayname", Str("n1")>>>>) }

InitCreate ==
  /\ colls = EmptyFcn
  /\ dlog = EmptyFcn
  /\ cursor = EmptyFcn
  /\ last = NoLast
  /\ hist = NoHist

NextCreate ==
  \/ \E href \in CreateHrefs, props \in CreateProps :
       CreateCollection(href, props) /\ LogsWithin(MaxLog)'
  \/ \E seg \in Bound : colls[seg].exists /\ Delete(seg, NoneHref, TRUE) /\ LogsWithin(MaxLog)'

SpecCreate == InitCreate /\ [][NextCreate]_vars

(* ================================ properties ============================ *)

KnownType(seg) == sync_type_of(seg) \in {"contacts", "calendars"}

\* the entries of other apps among log[from..Len(log)], in log order
RECURSIVE RemoteFrom(_, _)
RemoteFrom(log, from) ==
  IF from > Len(log) THEN <<>>
  ELSE IF log[from].origin = "remote" THEN <<log[from]>> \o RemoteFrom(log, from + 1)
  ELSE RemoteFrom(log, from + 1)

\* the value of the last entry of es with the path p, Absent when none
Absent == [t |-> "absent"]

RECURSIVE LatestValue(_, _)
LatestValue(es, p) ==
  IF es = <<>> THEN Absent
  ELSE IF es[Len(es)].path = p THEN es[Len(es)].value
  ELSE LatestValue(SubSeq(es, 1, Len(es) - 1), p)

\* C1: echo suppression. No step that runs a listener (one entry handed to
\* info_listener or resources_listener, or the entries pumped by etag and
\* sync) changes the DecSync log of any collection.
C1_EchoSuppression ==
  [][last'.op \in {"info_listener", "resources_listener", "etag", "sync"} => dlog' = dlog]_vars

\* C1 witness: a listener has stored or removed something in a collection
\* whose log holds entries.
C1_Witness ==
  /\ last.op \in {"info_listener", "resources_listener"}
  /\ last.err = ""
  /\ last.tr = <<"store">>
  /\ Len(dlog[last.seg]) = MaxLog

\* C2 (as claimed): in upload, delete and set_meta_all without the
\* remote-origin marker every append to the log comes after the storage
\* mutation has succeeded; so none happens when the storage fails.
C2_LogAfterStore ==
  last.op \in {"upload", "delete", "set_meta_all"} =>
    \A i \in DOMAIN last.tr :
      last.tr[i] = "log" => \E j \in 1..(i - 1) : last.tr[j] = "store"

\* C3 (as claimed): after local uploads and deletes, for every uid the latest
\* resources entry of the log is an item (not a tombstone, not absent)
\* exactly when a local item with that uid exists.
C3_IdentityStable ==
  \A seg \in Bound : \A u \in Uids :
    (LatestValue(dlog[seg], <<"resources", u>>) \notin {Null, Absent})
      <=> (\E h \in DOMAIN colls[seg].items : colls[seg].items[h].uid = u)

\* C4 (as claimed): the uid<->href table is injective in both directions: no
\* two uids of _hrefs share an href, no two hrefs of _uids share a uid.
C4_MappingInjective ==
  \A seg \in Bound :
    LET c == colls[seg]
    IN /\ \A i, j \in 1..Len(c.hrefs) : i # j => c.hrefs[i][2] # c.hrefs[j][2]
       /\ \A h1, h2 \in DOMAIN c.uids : h1 # h2 => c.uids[h1] # c.uids[h2]

\* C5 (as claimed): for every uid set_href has been called on,
\* get_uid(get_href(uid)) = uid.
C5_RoundTrip ==
  \A seg \in Bound : \A u \in hist.called :
    get_uid(colls[seg], get_href(colls[seg], u)) = u

\* C8: SyncPump. A successful etag or sync leaves no entry of the log behind
\* the cursor, returns the storage's result for the state after the pump, and
\* has applied the new entries in log order: for each uid the entry applied
\* last is the one the local item at get_href(uid) shows.
C8_SyncPump ==
  [][(last'.op \in {"etag", "sync"} /\ last'.err = "") =>
       LET seg == last'.seg
           new == RemoteFrom(dlog[seg], cursor[seg] + 1)
       IN /\ cursor'[seg] = Len(dlog[seg])
          /\ last'.res = storage_etag(colls'[seg])
          /\ \A u \in Uids :
               LET v == LatestValue(new, <<"resources", u>>)
                   href == get_href(colls[seg], u)
               IN /\ v = Null => storage_get(colls'[seg], href) = NoItem
                  /\ v \notin {Null, Absent} => storage_get(colls'[seg], href) = readOne(v)
    ]_vars

\* C8 witness: etag or sync has pumped a full log of entries of other apps
\* and the result shows an item that they brought.
C8_Witness ==
  /\ last.op \in {"etag", "sync"}
  /\ last.err = ""
  /\ Len(RemoteFrom(dlog[last.seg], 1)) = MaxLog
  /\ last.res.items # NoItems

\* C9 (as claimed): with an unrecognized sync_type the construction of the
\* collection with its mapping load, and the resources listener for an item
\* as for a tombstone, all end in an error.
C9_UnknownTypeFatal ==
  (last.seg \in DOMAIN colls /\ ~KnownType(last.seg)) =>
    /\ last.op = "init" => last.err # ""
    /\ (last.op = "resources_listener" /\ Len(last.path) = 1) => last.err # ""

\* C9 (amended): an unrecognized sync_type is fatal only where the resources
\* listener applies an item: it raises and changes nothing. Construction and
\* the mapping load succeed with the suffix ".ics", and a tombstone is
\* applied with no check of the type.
C9_UnknownTypeItemOnly ==
  [][(last'.seg \in DOMAIN colls /\ ~KnownType(last'.seg)) =>
       /\ (last'.op = "resources_listener" /\ Len(last'.path) = 1 /\ last'.value # Null) =>
            /\ last'.err = "RuntimeError:sync_type"
            /\ colls' = colls /\ dlog' = dlog /\ cursor' = cursor
       /\ (last'.op = "resources_listener" /\ Len(last'.path) = 1 /\ last'.value = Null) =>
            /\ last'.err = ""
            /\ colls'[last'.seg].items =
                 DropItem(colls[last'.seg].items, get_href(colls[last'.seg], last'.path[1]))
       /\ last'.op = "init" =>
            /\ last'.err = ""
            /\ colls'[last'.seg].bound
            /\ colls'[last'.seg].suffix = ".ics"
    ]_vars

\* C9 witness: the resources listener of a collection of unknown type that
\* holds an item has refused an item value.
C9_Witness ==
  /\ last.op = "resources_listener"
  /\ last.err = "RuntimeError:sync_type"
  /\ ~KnownType(last.seg)
  /\ colls[last.seg].items # NoItems

\* C10: protocol violations. An info entry with a key other than name,
\* deleted and color, and a resources entry whose path is not one segment,
\* raise, and leave items, metadata, mapping, mapping file and log as they were.
C10_ProtocolViolation ==
  [][/\ (last'.op = "info_listener" /\ last'.key \notin {"name", "deleted", "color"}) =>
          /\ last'.err = "ValueError:key"
          /\ colls' = colls /\ dlog' = dlog /\ cursor' = cursor
     /\ (last'.op = "resources_listener" /\ Len(last'.path) # 1) =>
          /\ last'.err = "ValueError:path"
          /\ colls' = colls /\ dlog' = dlog /\ cursor' = cursor
    ]_vars

\* C10 witness: a listener has raised on a protocol violation in a collection
\* that holds an item, metadata and log entries.
C10_Witness ==
  /\ last.op \in {"info_listener", "resources_listener"}
  /\ last.err \in {"ValueError:key", "ValueError:path"}
  /\ colls[last.seg].items # NoItems
  /\ colls[last.seg].meta # <<>>
  /\ dlog[last.seg] # <<>>

\* the last info entry of the log with the key "deleted" has the value true
MarkedDeleted(log) ==
  \E i \in 1..Len(log) :
    /\ log[i].path = <<"info">> /\ log[i].key = "deleted" /\ log[i].value = Bool(TRUE)
    /\ \A j \in (i + 1)..Len(log) : ~(log[j].path = <<"info">> /\ log[j].key = "deleted")

\* the events of a discover that concern the path segment
EventsOf(ev, seg) == {k \in 1..Len(ev) : ev[k][2] = seg}

\* C6: tombstone exclusion. Whatever the path and the depth, a discover step
\* leaves a remote collection that is marked deleted when it starts, and
\* that the storage does not hold, as it is: not created, not primed with
\* any stored entry, and not yielded.
C6_TombstoneExclusion ==
  [][last'.op = "discover" =>
       \A seg \in DOMAIN dlog :
         (MarkedDeleted(dlog[seg]) /\ ~Exists(colls, seg)) =>
           /\ ~Exists(colls', seg)
           /\ EventsOf(last'.ev, seg) = {}
           /\ \A k \in 1..Len(last'.res) : last'.res[k] # last'.path \o <<seg>>]_vars

\* a discover of the user's path materialized one remote collection and
\* passed over another that is marked deleted
C6_Witness ==
  /\ last.op = "discover" /\ last.err = "" /\ last.path = User
  /\ \E seg \in DOMAIN dlog : MarkedDeleted(dlog[seg]) /\ ~Exists(colls, seg)
  /\ \E seg \in DOMAIN dlog, k \in 1..Len(last.ev) : last.ev[k] = <<"yield", seg>>

\* the places of the replayed sequence that concern the uid
EntriesOf(seq, uid) == {i \in 1..Len(seq) : seq[i].path = <<uid>>}

\* the component a create carries, with the path's uid when it has none
CreatedItem(e) ==
  IF readOne(e.value).uid = "" THEN [readOne(e.value) EXCEPT !.uid = e.path[1]]
  ELSE readOne(e.value)

\* C7: convergence. After the second pass over the sequence the collection
\* holds the items it held after the first; and a uid whose entries hold a
\* tombstone and end, after it, in a create has exactly the item of that
\* last create.
C7_Convergence ==
  hist.pass = 3 =>
    \A seg \in DOMAIN colls :
      /\ colls[seg].items = hist.once
      /\ \A uid \in Uids :
           LET at == EntriesOf(hist.seq, uid)
               lst == CHOOSE i \in at : \A j \in at : j <= i
           IN (at # {} /\ hist.seq[lst].value # Null
               /\ \E i \in at : hist.seq[i].value = Null)
              => storage_get(colls[seg], Href(uid, colls[seg].suffix))
                 = CreatedItem(hist.seq[lst])

\* both passes are over a sequence that creates u1, removes it and creates
\* it again with another body
C7_Witness ==
  /\ hist.pass = 3
  /\ Len(hist.seq) = 3
  /\ hist.seq[1].path = <<"u1">> /\ hist.seq[1].value # Null
  /\ hist.seq[2] = [path |-> <<"u1">>, value |-> Null]
  /\ hist.seq[3].path = <<"u1">> /\ hist.seq[3].value # Null
  /\ hist.seq[3].value # hist.seq[1].value
  /\ \E seg \in DOMAIN colls : colls[seg].items = hist.once /\ hist.once # NoItems

\* C11: idempotence of the mapping update. A set_href(uid, href) with the
\* href that get_href(uid) already gives, from an entry of the table or from
\* the default uid + suffix, leaves both directions of the table and the
\* mapping file as they are, and the log too.
C11_SetHrefIdempotent ==
  [][(last'.op = "set_href" /\ last'.href = get_href(colls[last'.seg], last'.uid)) =>
       /\ colls'[last'.seg].hrefs = colls[last'.seg].hrefs
       /\ colls'[last'.seg].uids = colls[last'.seg].uids
       /\ colls'[last'.seg].file = colls[last'.seg].file
       /\ dlog' = dlog]_vars

\* set_href was called with the href that an entry of the table already
\* gave the uid, an href other than the default
C11_Witness ==
  /\ last.op = "set_href" /\ last.res = last.href
  /\ DictHas(colls[last.seg].hrefs, last.uid)
  /\ last.href # Href(last.uid, colls[last.seg].suffix)

\* C12 (as claimed): right after load_hrefs the suffix is ".vcf" for contacts
\* and ".ics" otherwise; with a missing or corrupt file both tables are empty,
\* so get_href(uid) = uid + suffix and get_uid(uid + suffix) = uid for every
\* uid; with a valid file the table is the file's object and the reverse
\* table is its inverse.
C12_LoadNeverFails ==
  \A seg \in Bound :
    (last.op = "load_hrefs" /\ last.seg = seg) =>
      LET c == colls[seg]
      IN /\ c.suffix = (IF sync_type_of(seg) = "contacts" THEN ".vcf" ELSE ".ics")
         /\ c.file.kind # "object" =>
              /\ c.hrefs = <<>> /\ c.uids = EmptyFcn
              /\ \A u \in Uids : /\ get_href(c, u) = Href(u, c.suffix)
                                 /\ get_uid(c, Href(u, c.suffix)) = u
         /\ c.file.kind = "object" =>
              /\ c.hrefs = c.file.members
              /\ \A k \in 1..Len(c.hrefs) :
                   /\ c.hrefs[k][2] \in DOMAIN c.uids
                   /\ c.uids[c.hrefs[k][2]] = c.hrefs[k][1]
              /\ \A h \in DOMAIN c.uids : DictGet(c.hrefs, c.uids[h], NoneHref) = h

\* C13: idempotent remote delete. The resources listener, given a tombstone
\* for a uid, raises nothing and changes nothing (items, mapping, mapping
\* file, logs) when no item is stored at get_href(uid); when one is, the
\* items afterwards are those before without the one at get_href(uid), and
\* the mapping and the logs are as before.
C13_IdempotentRemoteDelete ==
  [][(last'.op \in {"resources_listener", "replay"} /\ last'.value = Null
      /\ Len(last'.path) = 1) =>
       LET c == colls[last'.seg]
           d == colls'[last'.seg]
           href == get_href(c, last'.path[1])
       IN /\ last'.err = ""
          /\ dlog' = dlog
          /\ d.hrefs = c.hrefs /\ d.uids = c.uids /\ d.file = c.file
          /\ IF href \in DOMAIN c.items
             THEN /\ DOMAIN d.items = DOMAIN c.items \ {href}
                  /\ \A h \in DOMAIN d.items : d.items[h] = c.items[h]
             ELSE d = c]_vars

\* in the first pass an item of u2 is stored and the tombstone of u1, which
\* has no item, has just gone through the listener
C13_Witness ==
  /\ last.op = "replay" /\ last.value = Null /\ last.path = <<"u1">> /\ last.err = ""
  /\ hist.pass = 1 /\ hist.pos = 2
  /\ hist.seq[1].path = <<"u2">> /\ hist.seq[1].value # Null
  /\ \E seg \in DOMAIN colls : DOMAIN colls[seg].items = {Href("u2", colls[seg].suffix)}

\* the info key a property is published under, "" for the other properties
InfoKeyOf(key) ==
  IF key = "D:displayname" THEN "name"
  ELSE IF key = "ICAL:calendar-color" THEN "color" ELSE ""

\* the members of props that are published: one of the two keys, with a value
\* other than the stored one
Published(meta, props) ==
  {k \in 1..Len(props) : /\ InfoKeyOf(props[k][1]) # ""
                         /\ DictGet(meta, props[k][1], Null) # props[k][2]}

\* C14: a local set_meta_all(props) appends to the collection's log one info
\* entry for each of the two keys whose value in props is not the stored one
\* (name for the displayname, color for the calendar colour, in the order of
\* props) and nothing else; and a set_meta_all that follows one that returned,
\* with the same props, appends nothing.
C14_PublishOnlyChanged ==
  [][last'.op = "set_meta_all" =>
       LET seg == last'.seg
           props == last'.res
           pub == Published(colls[seg].meta, props)
           new == SubSeq(dlog'[seg], Len(dlog[seg]) + 1, Len(dlog'[seg]))
       IN /\ SubSeq(dlog'[seg], 1, Len(dlog[seg])) = dlog[seg]
          /\ Len(new) = Cardinality(pub)
          /\ \A k \in pub :
               new[Cardinality({j \in pub : j <= k})]
                 = Entry(<<"info">>, InfoKeyOf(props[k][1]), props[k][2], "own")
          /\ (last.op = "set_meta_all" /\ last.err = "" /\ last.seg = seg
              /\ last.res = props) => dlog' = dlog]_vars

\* a set_meta_all with a displayname that is stored already and a colour that
\* is not has appended the colour alone
C14_Witness ==
  /\ last.op = "set_meta_all" /\ last.err = ""
  /\ last.res = <<<<"D:displayname", Str("n1")>>, <<"ICAL:calendar-color", Str("red")>>>>
  /\ dlog[last.seg] = <<Entry(<<"info">>, "name", Str("n1"), "own"),
                        Entry(<<"info">>, "color", Str("red"), "own")>>
  /\ last.tr = <<"log", "store">>

\* the remote collections a scan has to materialize: of one of the two sync
\* types, not held by the storage, not marked deleted
Eligible(cs, dl) ==
  {seg \in DOMAIN dl : /\ Head(seg) \in {"contacts", "calendars"}
                       /\ ~Exists(cs, seg)
                       /\ ~MarkedDeleted(dl[seg])}

\* the places of the events of the kind for the path segment
EventAt(ev, kind, seg) == {k \in 1..Len(ev) : ev[k] = <<kind, seg>>}

\* the collections a discover step has created
Created(ev) == {seg \in DSegs : EventAt(ev, "create", seg) # {}}

\* what C15 says of every discover, given the paths that are scanned: the
\* collections of the storage are yielded first; with such a path and a depth
\* other than "0" the collections created are the eligible ones (all of them
\* when nothing raises), each yielded after the local ones; in every other
\* case none is created and the storage holds what it held
DiscoverScope(scanned) ==
     last'.op = "discover" =>
       LET path == last'.path
           n == Cardinality({k \in 1..Len(last'.ev) : last'.ev[k][1] = "local"})
       IN /\ \A k \in 1..Len(last'.ev) : (last'.ev[k][1] = "local") <=> (k <= n)
          /\ \A k \in 1..n : last'.res[k] = last'.ev[k][2]
          /\ (path = User /\ last'.key # "0") =>
               \A seg \in DOMAIN colls : colls[seg].exists =>
                 \E k \in 1..n : last'.res[k] = path \o <<seg>>
          /\ IF path \in scanned /\ last'.key # "0"
             THEN /\ Created(last'.ev) \subseteq Eligible(colls, dlog)
                  /\ last'.err = "" =>
                       /\ Created(last'.ev) = Eligible(colls, dlog)
                       /\ \A seg \in Eligible(colls, dlog) :
                            \E k \in (n + 1)..Len(last'.res) :
                              last'.res[k] = path \o <<seg>>
             ELSE /\ Created(last'.ev) = {}
                  /\ Len(last'.res) = n
                  /\ \A seg \in DSegs : Exists(colls', seg) <=> Exists(colls, seg)

\* C15 (as claimed): the remote collections are scanned when the depth is not
\* "0" and the path is the root.
C15_DiscoverScopeRoot == [][DiscoverScope({Root})]_vars

\* C15: discover yields the collections of the storage first; it scans the
\* remote collections when the depth is not "0" and the path has exactly one
\* segment (a user's collection, not the root): then exactly the collections
\* of either sync type that the storage does not hold and that are not marked
\* deleted are created, and, unless the priming raises, all of them are, each
\* yielded after the local ones; in every other case discover creates none.
C15_DiscoverScopeUser == [][DiscoverScope({User})]_vars

\* a discover of the user's path has yielded a collection the storage held
\* and, after it, one it has just created
C15_Witness ==
  /\ last.op = "discover" /\ last.err = "" /\ last.path = User /\ last.key = "1"
  /\ \E a, b \in DSegs :
       /\ EventAt(last.ev, "create", a) # {} /\ Exists(colls, a)
       /\ \E i, j \in 1..Len(last.res) :
            /\ i < j
            /\ last.res[i] = User \o <<b>> /\ last.ev[i] = <<"local", User \o <<b>>>>
            /\ last.res[j] = User \o <<a>>

\* the sync type of a container tag
TagType(tag) ==
  IF tag = Str("VADDRESSBOOK") THEN "contacts"
  ELSE IF tag = Str("VCALENDAR") THEN "calendars" ELSE ""

\* C16: create_collection with props whose tag is that of an address book or
\* of a calendar creates the collection under the href with its last segment
\* rewritten to "<sync_type>-<segment>", and the Collection of that path
\* derives the tag's sync_type and the original segment back from it; with
\* any other tag it raises and leaves everything as it is; without props it
\* creates the collection of the href itself.
C16_CreateRewrite ==
  [][last'.op = "create_collection" =>
       LET href == last'.path
           props == last'.res
           tag == DictGet(props.d, "tag", Null)
       IN IF props.none
          THEN /\ last'.err = "" /\ last'.ev = href
               /\ Len(href) = 2 => Exists(colls', href[2])
          ELSE IF TagType(tag) = ""
          THEN last'.err # "" /\ colls' = colls /\ dlog' = dlog /\ last'.ev = <<>>
          ELSE Len(href) = 2 =>
                 /\ last'.err = "" /\ Len(last'.ev) = 2 /\ last'.ev[1] = href[1]
                 /\ Exists(colls', last'.ev[2])
                 /\ sync_type_of(last'.ev[2]) = TagType(tag)
                 /\ collection_of(last'.ev[2]) = href[2]
                 /\ colls'[last'.ev[2]].suffix = (IF TagType(tag) = "contacts"
                                                  THEN ".vcf" ELSE ".ics")
                 /\ \A seg \in DOMAIN colls' \ {last'.ev[2]} :
                      seg \in DOMAIN colls /\ colls'[seg] = colls[seg]]_vars

\* a calendar was created under a name that holds a "-"
C16_Witness ==
  /\ last.op = "create_collection" /\ last.err = ""
  /\ last.path = User \o <<<<"my", "cal">>>>
  /\ last.ev = User \o <<<<"calendars", "my", "cal">>>>
  /\ Exists(colls, <<"calendars", "my", "cal">>)
  /\ colls[<<"calendars", "my", "cal">>].meta # <<>>

\* the number of stored entries of the log under the prefix: one for each
\* path and key
StoredCount(log, prefix) ==
  Cardinality({<<log[i].path, log[i].key>> : i \in {j \in 1..Len(log) :
                 log[j].path # <<>> /\ Head(log[j].path) = prefix}})

\* C17: priming order. In a discover step the events of each collection it
\* creates are one unbroken run: the creation, then the stored info entries,
\* then the stored resources entries, then the yield; no event of another
\* collection falls inside the run; and unless something raised, every stored
\* entry of the two channels was replayed and the collection was yielded.
C17_PrimingOrder ==
  [][last'.op = "discover" =>
       \A seg \in Created(last'.ev) :
         LET ev == last'.ev
             at == EventsOf(ev, seg)
         IN /\ \A i, j \in at : \A k \in i..j : k \in at
            /\ \A k \in at : (ev[k][1] = "create") <=> (\A j \in at : k <= j)
            /\ \A i, j \in at : (ev[i][1] = "info" /\ ev[j][1] = "resources") => i < j
            /\ \A k \in at : (ev[k][1] = "yield") => (\A j \in at : j <= k)
            /\ last'.err = "" =>
                 /\ EventAt(ev, "yield", seg) # {}
                 /\ Cardinality(EventAt(ev, "info", seg)) = StoredCount(dlog[seg], "info")
                 /\ Cardinality(EventAt(ev, "resources", seg))
                      = StoredCount(dlog[seg], "resources")]_vars

\* a discover created two collections, and primed one of them with an info
\* entry and a resources entry before it yielded it
C17_Witness ==
  /\ last.op = "discover" /\ last.err = ""
  /\ Cardinality(Created(last.ev)) = 2
  /\ \E seg \in DSegs : \E i, j, k \in 1..Len(last.ev) :
       /\ i < j /\ j < k
       /\ last.ev[i] = <<"info", seg>>
       /\ last.ev[j] = <<"resources", seg>>
       /\ last.ev[k] = <<"yield", seg>>

\* C18: a local upload(href, item) that succeeds has written the item, then
\* updated the mapping, then appended one resources entry for item.uid with
\* the serialized item, and nothing else to the log; get_href(item.uid) is
\* href afterwards, so that an entry of another app for the uid, item or
\* tombstone, is applied at href. One whose storage write fails leaves the
\* collection, its mapping and the logs as they were.
C18_UploadOrder ==
  [][last'.op = "upload" =>
       LET seg == last'.seg
           c == colls[seg]
           d == colls'[seg]
           href == last'.href
           uid == last'.uid
       IN IF last'.err = ""
          THEN /\ last'.tr = <<"store", "map", "log">>
               /\ href \in DOMAIN d.items /\ d.items[href].uid = uid
               /\ dlog'[seg] = Append(dlog[seg],
                                      Entry(<<"resources", uid>>, "None",
                                            serialize(d.items[href]), "own"))
               /\ get_href(d, uid) = href
               /\ resources_listener(d, dlog'[seg], sync_type_of(seg),
                                     <<uid>>, Null, TRUE).c.items
                    = DropItem(d.items, href)
          ELSE /\ \A k \in 1..Len(last'.tr) : last'.tr[k] \notin {"store", "map", "log"}
               /\ d = c
               /\ dlog' = dlog]_vars

\* an item was uploaded at an href other than its uid's default, and the
\* mapping and the log have it
C18_Witness ==
  /\ last.op = "upload" /\ last.err = "" /\ last.href.stem = "x" /\ last.uid = "u1"
  /\ DictHas(colls[last.seg].hrefs, "u1")
  /\ get_href(colls[last.seg], "u1") = last.href
  /\ dlog[last.seg] # <<>>

\* C19 (as claimed): in every state reached by set_href calls, load_hrefs on
\* the persisted file gives a mapping that answers get_href for every uid and
\* get_uid for every href as the mapping in memory does.
C19_PersistedEquivalent ==
  \A seg \in Bound :
    LET c == colls[seg]
        re == load_hrefs(c, sync_type_of(seg))
    IN /\ \A u \in Uids : get_href(re, u) = get_href(c, u)
       /\ \A h \in LocalHrefs(c) : get_uid(re, h) = get_uid(c, h)

\* C20 (as claimed): an info entry with the key "deleted" and a value other
\* than true, handed to the info listener, leaves the local collection and
\* its items as they are.
C20_DeletedOnlyTrue ==
  [][(last'.op = "info_listener" /\ last'.key = "deleted" /\ last'.value # Bool(TRUE)) =>
       /\ colls'[last'.seg].exists = colls[last'.seg].exists
       /\ colls'[last'.seg].items = colls[last'.seg].items]_vars
====
